---- MODULE Spec2Model ----
(***************************************************************************)
(* MiniGrid kernel of envpool (envpool/minigrid/impl/minigrid_env.cc):     *)
(* MiniGridReset, MiniGridStep, PlaceAgent, PlaceObject and GenImage over  *)
(* a grid of WorldObj values.                                              *)
(*                                                                         *)
(* The WorldObj class and the MiniGridEnv fields are declared in headers   *)
(* that are not part of the sources at hand; their model follows the       *)
(* design document (objects are values, a box owns its nested contents).   *)
(* The reward is a float in the code; the model keeps it as the exact      *)
(* rational num/den, so 1 - 0.9*(s/M) is (10M - 9s)/(10M).                 *)
(***************************************************************************)
EXTENDS Integers, Sequences, FiniteSets, TLC

VARIABLES
    grid,        \* grid_[y][x], here grid[<<x, y>>]
    agent_pos,   \* agent_pos_ = <<x, y>>
    agent_dir,   \* agent_dir_
    carrying,    \* carrying_
    step_count,  \* step_count_
    done,        \* done_
    max_steps,   \* max_steps_ (configuration, fixed for the life of the env)
    aborted,     \* a CHECK has failed: the process is gone
    reward,      \* value returned by the last MiniGridStep
    act,         \* the last call: an action of MiniGridStep, or "reset"
    pre,         \* the state the last call started from
    agent_view_size,   \* agent_view_size_ (configuration, odd)
    see_through_walls, \* see_through_walls_ (configuration)
    obs,         \* what GenImage has written for the current state, if called
    place,       \* the call of PlaceAgent or PlaceObject in progress, if any
    viewgrid     \* an agent_view_grid handed to the visibility loops alone

vars == <<grid, agent_pos, agent_dir, carrying, step_count, done, max_steps,
          aborted, reward, act, pre, agent_view_size, see_through_walls, obs,
          place, viewgrid>>

----------------------------------------------------------------------------
(* Bounds of the model *)

GridWidth == 5
GridHeight == 4
\* no MiniGridStep is taken once step_count_ has reached this value
MaxStepCount == 4
\* max_steps_ ranges over 2..MaxMaxSteps
MaxMaxSteps == 3
\* agent_view_size_ ranges over 3, 5, .. 2 * MaxViewHalf + 1
MaxViewHalf == 2
\* where the visibility loops run on a given viewport, at most this many of
\* its cells differ from the rest, outside the block in front of the agent
MaxExceptions == 1
\* where GenImage is called, no MiniGridStep is taken once step_count_ has
\* reached this value
MaxRenderSteps == 3

----------------------------------------------------------------------------
(* WorldObj *)

Obj(t, c) ==
    [type |-> t, color |-> c, door_open |-> FALSE, door_locked |-> FALSE,
     contains |-> <<>>]

\* WorldObj(kEmpty)
EmptyObj == Obj("empty", "none")

WallObj == Obj("wall", "none")

Door(c, locked, open) ==
    [Obj("door", c) EXCEPT !.door_locked = locked, !.door_open = open]

\* the contents of a box: the chain of nested objects, outermost first
Flat(o) ==
    [type |-> o.type, color |-> o.color, door_open |-> o.door_open,
     door_locked |-> o.door_locked]

Box(c, chain) == [Obj("box", c) EXCEPT !.contains = chain]

CanOverlap(o) ==
    \/ o.type \in {"empty", "floor", "goal", "lava"}
    \/ o.type = "door" /\ o.door_open

CanPickup(o) == o.type \in {"key", "ball", "box"}

\* SetDoorOpen(flag): opening a door also clears its lock
SetDoorOpen(o, flag) ==
    [o EXCEPT !.door_open = flag,
              !.door_locked = IF flag THEN FALSE ELSE o.door_locked]

----------------------------------------------------------------------------
(* Grid layouts produced by GenGrid *)

Cells == (0 .. GridWidth - 1) \X (0 .. GridHeight - 1)

InBounds(p) ==
    /\ p[1] >= 0 /\ p[1] < GridWidth
    /\ p[2] >= 0 /\ p[2] < GridHeight

IsBorder(p) ==
    \/ p[1] = 0 \/ p[1] = GridWidth - 1
    \/ p[2] = 0 \/ p[2] = GridHeight - 1

\* a room: walls around, empty inside
RoomGrid == [p \in Cells |-> IF IsBorder(p) THEN WallObj ELSE EmptyObj]

\* lava ahead with the goal behind it, a second goal to the south
GoalGrid ==
    [RoomGrid EXCEPT ![<<2, 1>>] = Obj("lava", "red"),
                     ![<<3, 1>>] = Obj("goal", "green"),
                     ![<<1, 2>>] = Obj("goal", "green")]

\* two keys, a locked red door inside and a closed door in the border
DoorGrid ==
    [RoomGrid EXCEPT ![<<3, 1>>] = Obj("key", "red"),
                     ![<<1, 1>>] = Obj("key", "green"),
                     ![<<2, 2>>] = Door("red", TRUE, FALSE),
                     ![<<2, 0>>] = Door("green", FALSE, FALSE)]

\* a box holding a box holding a key, a ball, a locked door, a key in the
\* border
BoxGrid ==
    [RoomGrid EXCEPT
        ![<<3, 1>>] = Box("red", <<Flat(Obj("box", "green")),
                                   Flat(Obj("key", "red"))>>),
        ![<<1, 1>>] = Obj("ball", "green"),
        ![<<2, 2>>] = Door("red", TRUE, FALSE),
        ![<<2, 0>>] = Obj("key", "green")]

\* an open door to the south with a ball next to it, a box in a box to the
\* east
HallGrid ==
    [RoomGrid EXCEPT ![<<2, 2>>] = Door("green", FALSE, TRUE),
                     ![<<3, 2>>] = Obj("ball", "red"),
                     ![<<3, 1>>] = Box("green", <<Flat(Obj("box", "red"))>>)]

Gen(g, p, d) == [grid |-> g, agent_pos |-> p, agent_dir |-> d]

\* what GenGrid leaves behind when the layout is well formed
GoodGens ==
    {Gen(GoalGrid, <<1, 1>>, d) : d \in 0 .. 3}
        \cup {Gen(DoorGrid, <<2, 1>>, d) : d \in 0 .. 3}
        \cup {Gen(BoxGrid, <<2, 1>>, d) : d \in 0 .. 3}
        \cup {Gen(HallGrid, <<2, 1>>, d) : d \in 0 .. 3}

\* what a GenGrid may leave behind: also an agent outside the grid, on a
\* wall, or with a direction outside 0..3
AnyGens ==
    GoodGens
        \cup {Gen(GoalGrid, <<x, y>>, d) :
                x \in {-1, 0, 1, GridWidth}, y \in {-1, 1, GridHeight},
                d \in {-1, 0, 4}}

----------------------------------------------------------------------------
(* The state of one environment, as a record *)

Actions == {"left", "right", "forward", "pickup", "drop", "toggle", "done"}

\* an action code outside the enumeration
InvalidAct == "invalid"

ZeroReward == [num |-> 0, den |-> 1]

EnvState ==
    [grid |-> grid, agent_pos |-> agent_pos, agent_dir |-> agent_dir,
     carrying |-> carrying, step_count |-> step_count, done |-> done,
     reward |-> reward, aborted |-> aborted]

\* a failed CHECK ends the process
Abort(s) == [s EXCEPT !.aborted = TRUE]

----------------------------------------------------------------------------
(* MiniGridReset *)

\* the value CHECK(grid_[agent_pos_.second][agent_pos_.first].CanOverlap())
\* reads: outside the vectors the read is undefined and may give either
ResetReads(g) ==
    IF InBounds(g.agent_pos)
    THEN {CanOverlap(g.grid[g.agent_pos])}
    ELSE BOOLEAN

ResetChecks(g, ovl) ==
    /\ g.agent_pos[1] >= 0
    /\ g.agent_pos[2] >= 0
    /\ g.agent_dir >= 0
    /\ ovl

ResetResult(g, ovl) ==
    [grid |-> g.grid, agent_pos |-> g.agent_pos, agent_dir |-> g.agent_dir,
     carrying |-> EmptyObj, step_count |-> 0, done |-> FALSE,
     reward |-> ZeroReward, aborted |-> ~ResetChecks(g, ovl)]

----------------------------------------------------------------------------
(* MiniGridStep *)

DirValid(d) == d \in 0 .. 3

\* mutant: directions 1 and 3 are exchanged
FwdPosSwapped(p, d) ==
    CASE d = 0 -> <<p[1] + 1, p[2]>>
      [] d = 1 -> <<p[1], p[2] - 1>>
      [] d = 2 -> <<p[1] - 1, p[2]>>
      [] d = 3 -> <<p[1], p[2] + 1>>
      [] OTHER -> p

FwdPos(p, d) ==
    CASE d = 0 -> <<p[1] + 1, p[2]>>
      [] d = 1 -> <<p[1], p[2] + 1>>
      [] d = 2 -> <<p[1] - 1, p[2]>>
      [] d = 3 -> <<p[1], p[2] - 1>>
      [] OTHER -> p

\* mutant: the wrap-around of Left is missing
TurnLeftNoWrap(d) == d - 1

TurnLeft(d) == IF d - 1 < 0 THEN d - 1 + 4 ELSE d - 1

\* mutant: the wrap-around of Right is missing
TurnRightNoWrap(d) == d + 1

TurnRight(d) == (d + 1) % 4

\* mutant: the cast to float is missing, the division is integer division
GoalRewardIntDiv(s, M) == [num |-> 10 - 9 * (s \div M), den |-> 10]

\* 1 - 0.9 * (step_count_ / max_steps_)
GoalReward(s, M) == [num |-> 10 * M - 9 * s, den |-> 10 * M]

StepLeft(s) == [s EXCEPT !.agent_dir = TurnLeft(s.agent_dir)]

StepRight(s) == [s EXCEPT !.agent_dir = TurnRight(s.agent_dir)]

\* mutant: a Forward onto Lava returns a penalty
StepForwardLavaPenalty(s, fwd, M) ==
    LET moved == IF CanOverlap(s.grid[fwd])
                 THEN [s EXCEPT !.agent_pos = fwd]
                 ELSE s
    IN  IF moved.grid[fwd].type = "goal"
        THEN [moved EXCEPT !.done = TRUE,
                           !.reward = GoalReward(s.step_count, M)]
        ELSE IF moved.grid[fwd].type = "lava"
        THEN [moved EXCEPT !.done = TRUE, !.reward = [num |-> -1, den |-> 1]]
        ELSE moved

\* mutant: a Forward onto anything but Goal or Lava clears done_
StepForwardClears(s, fwd, M) ==
    LET moved == IF CanOverlap(s.grid[fwd])
                 THEN [s EXCEPT !.agent_pos = fwd]
                 ELSE s
    IN  IF moved.grid[fwd].type = "goal"
        THEN [moved EXCEPT !.done = TRUE,
                           !.reward = GoalReward(s.step_count, M)]
        ELSE [moved EXCEPT !.done = (moved.grid[fwd].type = "lava")]

StepForward(s, fwd, M) ==
    LET moved == IF CanOverlap(s.grid[fwd])
                 THEN [s EXCEPT !.agent_pos = fwd]
                 ELSE s
    IN  IF moved.grid[fwd].type = "goal"
        THEN [moved EXCEPT !.done = TRUE,
                           !.reward = GoalReward(s.step_count, M)]
        ELSE IF moved.grid[fwd].type = "lava"
        THEN [moved EXCEPT !.done = TRUE]
        ELSE moved

\* mutant: only the type and the color of the object are taken
StepPickupShallow(s, fwd) ==
    IF s.carrying.type = "empty" /\ CanPickup(s.grid[fwd])
    THEN [s EXCEPT !.carrying = Obj(s.grid[fwd].type, s.grid[fwd].color),
                   !.grid[fwd] = EmptyObj]
    ELSE s

StepPickup(s, fwd) ==
    IF s.carrying.type = "empty" /\ CanPickup(s.grid[fwd])
    THEN [s EXCEPT !.carrying = s.grid[fwd], !.grid[fwd] = EmptyObj]
    ELSE s

StepDrop(s, fwd) ==
    IF s.carrying.type # "empty" /\ s.grid[fwd].type = "empty"
    THEN [s EXCEPT !.grid[fwd] = s.carrying, !.carrying = EmptyObj]
    ELSE s

\* mutant: the color of the key is not compared
ToggleDoorAnyKey(obj, held) ==
    IF obj.door_locked
    THEN IF held.type = "key"
         THEN SetDoorOpen(obj, TRUE)
         ELSE obj
    ELSE SetDoorOpen(obj, ~obj.door_open)

\* mutant: the negation in the unlocked branch is missing
ToggleDoorNoFlip(obj, held) ==
    IF obj.door_locked
    THEN IF held.type = "key" /\ held.color = obj.color
         THEN SetDoorOpen(obj, TRUE)
         ELSE obj
    ELSE SetDoorOpen(obj, obj.door_open)

ToggleDoor(obj, held) ==
    IF obj.door_locked
    THEN IF held.type = "key" /\ held.color = obj.color
         THEN SetDoorOpen(obj, TRUE)
         ELSE obj
    ELSE SetDoorOpen(obj, ~obj.door_open)

\* mutant: the contents of the contained object are not carried over
ToggleBoxDropsNested(obj) ==
    IF obj.contains # <<>>
    THEN [type |-> Head(obj.contains).type,
          color |-> Head(obj.contains).color,
          door_open |-> Head(obj.contains).door_open,
          door_locked |-> Head(obj.contains).door_locked,
          contains |-> <<>>]
    ELSE EmptyObj

\* the contained object takes the cell and keeps its own contents
ToggleBox(obj) ==
    IF obj.contains # <<>>
    THEN [type |-> Head(obj.contains).type,
          color |-> Head(obj.contains).color,
          door_open |-> Head(obj.contains).door_open,
          door_locked |-> Head(obj.contains).door_locked,
          contains |-> Tail(obj.contains)]
    ELSE EmptyObj

StepToggle(s, fwd) ==
    IF s.grid[fwd].type = "door"
    THEN [s EXCEPT !.grid[fwd] = ToggleDoor(s.grid[fwd], s.carrying)]
    ELSE IF s.grid[fwd].type = "box"
    THEN [s EXCEPT !.grid[fwd] = ToggleBox(s.grid[fwd])]
    ELSE s

\* mutant: > instead of >=
ForceDoneStrict(s, M) ==
    IF s.step_count > M THEN [s EXCEPT !.done = TRUE] ELSE s

ForceDone(s, M) ==
    IF s.step_count >= M THEN [s EXCEPT !.done = TRUE] ELSE s

Dispatch(s, a, fwd, M) ==
    CASE a = "left" -> StepLeft(s)
      [] a = "right" -> StepRight(s)
      [] a = "forward" -> StepForward(s, fwd, M)
      [] a = "pickup" -> StepPickup(s, fwd)
      [] a = "drop" -> StepDrop(s, fwd)
      [] a = "toggle" -> StepToggle(s, fwd)
      [] OTHER -> s

MiniGridStep(s0, a, M) ==
    LET s == [s0 EXCEPT !.step_count = s0.step_count + 1,
                        !.reward = ZeroReward]
        fwd == FwdPos(s.agent_pos, s.agent_dir)
    IN  IF ~DirValid(s.agent_dir) \/ ~InBounds(fwd)
        THEN Abort(s)
        ELSE IF a \notin Actions
        THEN Abort(s)
        ELSE ForceDone(Dispatch(s, a, fwd, M), M)

----------------------------------------------------------------------------
(* GenImage *)

ViewSizes == {2 * k + 1 : k \in 1 .. MaxViewHalf}

\* indices <<row, col>> of agent_view_grid[row][col] and of vis_mask
ViewCells(n) == (0 .. n - 1) \X (0 .. n - 1)

\* WorldObj(type): an object built from its type alone
ObjOfType(t) == Obj(t, "none")

CanSeeBehind(o) == ~(o.type = "wall" \/ (o.type = "door" /\ ~o.door_open))

TypeCode(t) ==
    CASE t = "empty" -> 1 [] t = "wall" -> 2 [] t = "floor" -> 3
      [] t = "door" -> 4 [] t = "key" -> 5 [] t = "ball" -> 6
      [] t = "box" -> 7 [] t = "goal" -> 8 [] t = "lava" -> 9
      [] OTHER -> 10

ColorCode(c) ==
    CASE c = "red" -> 0 [] c = "green" -> 1 [] OTHER -> 6

\* GetState(): 0 for an open door and for every other object
StateCode(o) ==
    IF o.type # "door" THEN 0
    ELSE IF o.door_open THEN 0
    ELSE IF o.door_locked THEN 2
    ELSE 1

Codes(o) == <<TypeCode(o.type), ColorCode(o.color), StateCode(o)>>

\* top_x, top_y
TopLeft(p, d, n) ==
    CASE d = 0 -> <<p[1], p[2] - (n \div 2)>>
      [] d = 1 -> <<p[1] - (n \div 2), p[2]>>
      [] d = 2 -> <<p[1] - n + 1, p[2] - (n \div 2)>>
      [] d = 3 -> <<p[1] - (n \div 2), p[2] - n + 1>>
      [] OTHER -> p

\* x = top_x + j, y = top_y + i for row i and column j
WorldCell(top, rc) == <<top[1] + rc[2], top[2] + rc[1]>>

\* the sub-grid observed by the agent
SubGrid(g, top, n) ==
    [rc \in ViewCells(n) |->
        IF InBounds(WorldCell(top, rc))
        THEN ObjOfType(g[WorldCell(top, rc)].type)
        ELSE ObjOfType("wall")]

\* mutant: the rotation goes clockwise, copy[x][n-1-y] = old[y][x]
RotateClockwise(v, n) ==
    [rc \in ViewCells(n) |-> v[<<n - 1 - rc[2], rc[1]>>]]

\* one loop step of a rotation without the copy: the grid is read while it
\* is being written
RECURSIVE RotateCells(_, _, _)
RotateCells(v, n, k) ==
    IF k = n * n THEN v
    ELSE LET y == k \div n
             x == k % n
         IN  RotateCells([v EXCEPT ![<<n - 1 - x, y>>] = v[<<y, x>>]], n,
                         k + 1)

\* mutant: copy_grid is no copy
RotateInPlace(v, n) == RotateCells(v, n, 0)

\* copy[n-1-x][y] = old[y][x] for all y, x: cell <<r, c>> of the copy is
\* written once, with y = c and x = n-1-r
Rotate(v, n) ==
    [rc \in ViewCells(n) |-> v[<<rc[2], n - 1 - rc[1]>>]]

RECURSIVE RotateTimes(_, _, _)
RotateTimes(v, n, k) ==
    IF k = 0 THEN v ELSE RotateTimes(Rotate(v, n), n, k - 1)

\* agent_pos_y, agent_pos_x
AgentCell(n) == <<n - 1, n \div 2>>

\* vis_mask[j][i + 1] = true and, for j > 0, vis_mask[j - 1][i + 1] =
\* vis_mask[j - 1][i] = true
MarkRight(m, j, i) ==
    IF j > 0
    THEN [m EXCEPT ![<<j, i + 1>>] = TRUE, ![<<j - 1, i + 1>>] = TRUE,
                   ![<<j - 1, i>>] = TRUE]
    ELSE [m EXCEPT ![<<j, i + 1>>] = TRUE]

MarkLeft(m, j, i) ==
    IF j > 0
    THEN [m EXCEPT ![<<j, i - 1>>] = TRUE, ![<<j - 1, i - 1>>] = TRUE,
                   ![<<j - 1, i>>] = TRUE]
    ELSE [m EXCEPT ![<<j, i - 1>>] = TRUE]

\* for (i = 0; i <= n - 2; ++i)
RECURSIVE SweepRight(_, _, _, _, _)
SweepRight(m, v, j, i, n) ==
    IF i > n - 2 THEN m
    ELSE IF m[<<j, i>>] /\ CanSeeBehind(v[<<j, i>>])
    THEN SweepRight(MarkRight(m, j, i), v, j, i + 1, n)
    ELSE SweepRight(m, v, j, i + 1, n)

\* for (i = n - 1; i >= 1; --i)
RECURSIVE SweepLeft(_, _, _, _, _)
SweepLeft(m, v, j, i, n) ==
    IF i < 1 THEN m
    ELSE IF m[<<j, i>>] /\ CanSeeBehind(v[<<j, i>>])
    THEN SweepLeft(MarkLeft(m, j, i), v, j, i - 1, n)
    ELSE SweepLeft(m, v, j, i - 1, n)

\* mutant: the sweep from right to left is missing
RECURSIVE SweepRowsRightOnly(_, _, _, _)
SweepRowsRightOnly(m, v, j, n) ==
    IF j < 0 THEN m
    ELSE SweepRowsRightOnly(SweepRight(m, v, j, 0, n), v, j - 1, n)

\* for (j = n - 1; j >= 0; --j)
RECURSIVE SweepRows(_, _, _, _)
SweepRows(m, v, j, n) ==
    IF j < 0 THEN m
    ELSE SweepRows(SweepLeft(SweepRight(m, v, j, 0, n), v, j, n - 1, n),
                   v, j - 1, n)

\* vis_mask with only the agent's cell set
SeedMask(n) == [rc \in ViewCells(n) |-> rc = AgentCell(n)]

\* vis_mask, as the set of its true cells
VisMask(v, n, through) ==
    IF ~through
    THEN LET m == SweepRows(SeedMask(n), v, n - 1, n)
         IN  {rc \in ViewCells(n) : m[rc]}
    ELSE ViewCells(n)

\* cells that are not visible are replaced by WorldObj(kEmpty)
Hidden(v, mask, n) ==
    [rc \in ViewCells(n) |-> IF rc \in mask THEN v[rc] ELSE EmptyObj]

\* mutant: the carried object is rebuilt from its type, like the grid cells
WithCarriedTypeOnly(v, n, held) ==
    [v EXCEPT ![AgentCell(n)] = ObjOfType(held.type)]

\* let the agent see what it is carrying
WithCarried(v, n, held) ==
    [v EXCEPT ![AgentCell(n)] = IF held.type # "empty" THEN held ELSE EmptyObj]

\* obs(x, y, .) is written from agent_view_grid[y][x] where vis_mask[y][x]
WriteObs(buf, v, mask, n) ==
    [xy \in ViewCells(n) |->
        IF <<xy[2], xy[1]>> \in mask
        THEN Codes(v[<<xy[2], xy[1]>>])
        ELSE buf[xy]]

\* the rotated sub-grid, before visibility is processed
ViewGrid(s, n) ==
    RotateTimes(SubGrid(s.grid, TopLeft(s.agent_pos, s.agent_dir, n), n), n,
                s.agent_dir + 1)

GenImage(s, n, through, buf) ==
    LET v == ViewGrid(s, n)
        mask == VisMask(v, n, through)
    IN  [rendered |-> TRUE,
         image |-> WriteObs(buf, WithCarried(Hidden(v, mask, n), n, s.carrying),
                            mask, n),
         vis_mask |-> mask]

\* the buffer the caller hands to GenImage, before the call
PriorCell == <<255, 255, 255>>

PriorBuffer(n) == [xy \in ViewCells(n) |-> PriorCell]

\* GenImage has not been called for the current state
NoObs == [rendered |-> FALSE, image |-> <<>>, vis_mask |-> {}]

\* no viewport is given on its own
NoView == [given |-> FALSE, cells |-> <<>>]

\* the viewport that holds a where the cell is in X and b elsewhere
Paint(n, X, a, b) == [rc \in ViewCells(n) |-> IF rc \in X THEN a ELSE b]

\* the agent's cell, the cell ahead of it and the cells around that one
FrontBlock(n) ==
    {rc \in ViewCells(n) :
        /\ rc[1] >= n - 3
        /\ rc[2] >= n \div 2 - 1
        /\ rc[2] <= n \div 2 + 1}

\* the sets of at most k cells
RECURSIVE UpTo(_, _)
UpTo(n, k) ==
    IF k = 0 THEN {{}}
    ELSE LET P == UpTo(n, k - 1)
         IN  P \cup {X \cup {c} : X \in P, c \in ViewCells(n)}

\* viewports of opaque and see-through objects: every assignment within the
\* front block, and at most MaxExceptions cells of the other kind anywhere
ViewInputs(n) ==
    LET sets == SUBSET FrontBlock(n) \cup UpTo(n, MaxExceptions)
    IN  {Paint(n, X, ObjOfType("wall"), ObjOfType("empty")) : X \in sets}
            \cup {Paint(n, X, ObjOfType("empty"), ObjOfType("wall")) :
                     X \in sets}

----------------------------------------------------------------------------
(* PlaceAgent and PlaceObject *)

\* no placement has been called
IdlePlace ==
    [pc |-> "idle", caller |-> "none", args |-> <<0, 0, 0, 0>>,
     rect |-> <<0, 0, 0, 0>>, random_dir |-> FALSE, result |-> <<-1, -1>>]

\* rectangles <<start_x, start_y, end_x, end_y>> handed to PlaceAgent: one
\* cell, up to the last column or row (-1), or with end_x below start_x
AgentRects ==
    {r \in (0 .. GridWidth - 1) \X (0 .. GridHeight - 1)
           \X (-1 .. GridWidth - 1) \X (-1 .. GridHeight - 1) :
        /\ r[3] \in {r[1] - 1, r[1], -1}
        /\ r[4] \in {r[2], -1}}

\* rectangles handed to PlaceObject: inside the grid, start <= end
ObjectRects ==
    {r \in (0 .. GridWidth - 1) \X (0 .. GridHeight - 1)
           \X (0 .. GridWidth - 1) \X (0 .. GridHeight - 1) :
        /\ r[3] \in {r[1], GridWidth - 1}
        /\ r[4] \in {r[2], GridHeight - 1}}

\* end_x = (end_x == -1) ? width_ - 1 : end_x, and likewise end_y
ResolveEnd(r) ==
    <<r[1], r[2], IF r[3] = -1 THEN GridWidth - 1 ELSE r[3],
      IF r[4] = -1 THEN GridHeight - 1 ELSE r[4]>>

\* mutant: the distributions exclude their upper ends
DrawRangeHalfOpen(r) == (r[1] .. r[3] - 1) \X (r[2] .. r[4] - 1)

\* the cells <<x, y>> that x_dist and y_dist can produce
DrawRange(r) == (r[1] .. r[3]) \X (r[2] .. r[4])

\* mutant: the test against the agent's position is missing
EligibleIgnoresAgent(g, p, c) == g[c].type = "empty"

\* neither continue is taken for the drawn cell c
Eligible(g, p, c) ==
    /\ g[c].type = "empty"
    /\ ~(p[1] = c[1] /\ p[2] = c[2])

----------------------------------------------------------------------------
(* Actions *)

Snapshot(s) ==
    [grid |-> s.grid, agent_pos |-> s.agent_pos, agent_dir |-> s.agent_dir,
     carrying |-> s.carrying, step_count |-> s.step_count, done |-> s.done]

Install(s) ==
    /\ grid' = s.grid
    /\ agent_pos' = s.agent_pos
    /\ agent_dir' = s.agent_dir
    /\ carrying' = s.carrying
    /\ step_count' = s.step_count
    /\ done' = s.done
    /\ reward' = s.reward
    /\ aborted' = s.aborted

ResetFrom(gens) ==
    /\ ~aborted
    /\ \E g \in gens : \E ovl \in ResetReads(g) :
          /\ Install(ResetResult(g, ovl))
          /\ pre' = Snapshot(ResetResult(g, ovl))
    /\ act' = "reset"
    /\ obs' = NoObs
    /\ UNCHANGED <<max_steps, agent_view_size, see_through_walls, place,
                   viewgrid>>

Reset == ResetFrom(GoodGens)

ResetAny == ResetFrom(AnyGens)

StepUpTo(cap) ==
    /\ ~aborted
    /\ step_count < cap
    /\ \E a \in Actions \cup {InvalidAct} :
          /\ Install(MiniGridStep(EnvState, a, max_steps))
          /\ act' = a
    /\ pre' = Snapshot(EnvState)
    /\ obs' = NoObs
    /\ UNCHANGED <<max_steps, agent_view_size, see_through_walls, place,
                   viewgrid>>

Step == StepUpTo(MaxStepCount)

StepRender == StepUpTo(MaxRenderSteps)

\* the driver calls GenImage on a fresh buffer for the state it has reached
Render ==
    /\ ~aborted
    /\ ~obs.rendered
    /\ IF DirValid(agent_dir)
       THEN /\ obs' = GenImage(EnvState, agent_view_size, see_through_walls,
                               PriorBuffer(agent_view_size))
            /\ UNCHANGED aborted
       ELSE /\ aborted' = TRUE
            /\ UNCHANGED obs
    /\ UNCHANGED <<grid, agent_pos, agent_dir, carrying, step_count, done,
                   max_steps, reward, act, pre, agent_view_size,
                   see_through_walls, place, viewgrid>>

\* PlaceAgent up to the head of the loop of PlaceObject
PlaceAgentCall ==
    /\ ~aborted
    /\ place.pc = "idle"
    /\ \E r \in AgentRects : \E rnd \in BOOLEAN :
          LET q == ResolveEnd(r)
          IN  IF q[1] <= q[3] /\ q[2] <= q[4]
              THEN /\ agent_pos' = <<-1, -1>>
                   /\ place' = [pc |-> "loop", caller |-> "agent", args |-> r,
                                rect |-> q, random_dir |-> rnd,
                                result |-> <<-1, -1>>]
                   /\ UNCHANGED aborted
              ELSE /\ aborted' = TRUE
                   /\ UNCHANGED <<agent_pos, place>>
    /\ act' = "place_agent"
    /\ pre' = Snapshot(EnvState)
    /\ UNCHANGED <<grid, agent_dir, carrying, step_count, done, max_steps,
                   reward, agent_view_size, see_through_walls, obs,
                   viewgrid>>

\* PlaceObject called on its own, up to the head of its loop
PlaceObjectCall ==
    /\ ~aborted
    /\ place.pc = "idle"
    /\ \E r \in ObjectRects :
          place' = [pc |-> "loop", caller |-> "object", args |-> r,
                    rect |-> r, random_dir |-> FALSE, result |-> <<-1, -1>>]
    /\ act' = "place_object"
    /\ pre' = Snapshot(EnvState)
    /\ UNCHANGED <<grid, agent_pos, agent_dir, carrying, step_count, done,
                   max_steps, aborted, reward, agent_view_size,
                   see_through_walls, obs, viewgrid>>

\* one iteration of the loop of PlaceObject that draws the cell c; when the
\* loop breaks, PlaceObject returns and PlaceAgent, if it was the caller,
\* takes the cell and draws a direction
Draw(c) ==
    /\ ~aborted
    /\ place.pc = "loop"
    /\ c \in DrawRange(place.rect)
    /\ IF Eligible(grid, agent_pos, c)
       THEN /\ place' = [place EXCEPT !.pc = "returned", !.result = c]
            /\ IF place.caller = "agent"
               THEN /\ agent_pos' = c
                    /\ agent_dir' \in IF place.random_dir THEN 0 .. 3
                                      ELSE {agent_dir}
               ELSE UNCHANGED <<agent_pos, agent_dir>>
       ELSE UNCHANGED <<place, agent_pos, agent_dir>>
    /\ UNCHANGED <<grid, carrying, step_count, done, max_steps, aborted,
                   reward, act, pre, agent_view_size, see_through_walls, obs,
                   viewgrid>>

DrawAny == \E c \in Cells : Draw(c)

\* the visibility loops of GenImage run on the given viewport
Visibility ==
    /\ ~aborted
    /\ viewgrid.given
    /\ ~obs.rendered
    /\ obs' = [rendered |-> TRUE, image |-> <<>>,
               vis_mask |-> VisMask(viewgrid.cells, agent_view_size,
                                    see_through_walls)]
    /\ UNCHANGED <<grid, agent_pos, agent_dir, carrying, step_count, done,
                   max_steps, aborted, reward, act, pre, agent_view_size,
                   see_through_walls, place, viewgrid>>

\* the driver constructs the environment and calls MiniGridReset before the
\* first MiniGridStep
InitWith(limits, sizes, modes) ==
    /\ max_steps \in limits
    /\ agent_view_size \in sizes
    /\ see_through_walls \in modes
    /\ obs = NoObs
    /\ place = IdlePlace
    /\ viewgrid = NoView
    /\ \E g \in GoodGens : \E ovl \in ResetReads(g) :
          /\ grid = g.grid
          /\ agent_pos = g.agent_pos
          /\ agent_dir = g.agent_dir
          /\ carrying = EmptyObj
          /\ step_count = 0
          /\ done = FALSE
          /\ reward = ZeroReward
          /\ aborted = ~ResetChecks(g, ovl)
          /\ pre = Snapshot(ResetResult(g, ovl))
    /\ act = "reset"

\* GenImage is not called: one view configuration
Init == InitWith(2 .. MaxMaxSteps, {3}, {FALSE})

\* GenImage is called: every view configuration
InitRender == InitWith({MaxMaxSteps}, ViewSizes, BOOLEAN)

Next == Reset \/ Step

NextAny == ResetAny \/ Step

NextRender == Reset \/ StepRender \/ Render

\* GenGrid produces well-formed layouts
Spec == Init /\ [][Next]_vars

\* after the first episode GenGrid is unconstrained
SpecAny == Init /\ [][NextAny]_vars

\* the driver also calls GenImage
SpecRender == InitRender /\ [][NextRender]_vars

\* the content generator places the agent or an object on the grid
InitPlace == InitWith({MaxMaxSteps}, {3}, {FALSE})

NextPlace == PlaceAgentCall \/ PlaceObjectCall \/ DrawAny

SpecPlace == InitPlace /\ [][NextPlace]_vars

\* every cell of the rectangle is drawn again and again
FairDraws == \A c \in Cells : WF_vars(Draw(c))

SpecPlaceFair == SpecPlace /\ FairDraws

\* one environment, every view configuration, a viewport of opaque and
\* see-through objects
InitVis ==
    /\ max_steps = MaxMaxSteps
    /\ agent_view_size \in ViewSizes
    /\ see_through_walls \in BOOLEAN
    /\ viewgrid \in {[given |-> TRUE, cells |-> v] :
                        v \in ViewInputs(agent_view_size)}
    /\ obs = NoObs
    /\ place = IdlePlace
    /\ LET s == ResetResult(Gen(GoalGrid, <<1, 1>>, 3), TRUE)
       IN  /\ grid = s.grid
           /\ agent_pos = s.agent_pos
           /\ agent_dir = s.agent_dir
           /\ carrying = s.carrying
           /\ step_count = s.step_count
           /\ done = s.done
           /\ reward = s.reward
           /\ aborted = s.aborted
           /\ pre = Snapshot(s)
    /\ act = "reset"

NextVis == Visibility

SpecVis == InitVis /\ [][NextVis]_vars

----------------------------------------------------------------------------
(* Vocabulary of the properties *)

\* the last call was a MiniGridStep that returned
Stepped == act \in Actions /\ ~aborted

\* the cell that was ahead of the agent when the last call started:
\* direction 0 is x+1, 1 is y+1, 2 is x-1, 3 is y-1
Ahead ==
    <<pre.agent_pos[1] + (IF pre.agent_dir = 0 THEN 1 ELSE 0)
                       - (IF pre.agent_dir = 2 THEN 1 ELSE 0),
      pre.agent_pos[2] + (IF pre.agent_dir = 1 THEN 1 ELSE 0)
                       - (IF pre.agent_dir = 3 THEN 1 ELSE 0)>>

\* r1 < r2 for rationals with positive denominators
Less(r1, r2) == r1.num * r2.den < r2.num * r1.den

Same(r1, r2) == r1.num * r2.den = r2.num * r1.den

OneTenth == [num |-> 1, den |-> 10]

One == [num |-> 1, den |-> 1]

\* 1 - 0.9 * (s / M) as a rational
Formula(s, M) == [num |-> 10 * M - 9 * s, den |-> 10 * M]

----------------------------------------------------------------------------
(* C1 *)

\* C1: once done_ is true after a MiniGridStep it is true after every later
\* MiniGridStep; only MiniGridReset sets it back to false.
C1_DoneLatch == [][(done /\ act' # "reset") => done']_vars

\* a MiniGridStep taken with done_ already true has returned
C1_Witness == Stepped /\ pre.done /\ done

----------------------------------------------------------------------------
(* C2 *)

\* C2: a MiniGridStep taken once done_ is true returns reward 0, also a
\* Forward onto a Goal.
C2_NoRewardAfterDone == (Stepped /\ pre.done) => reward.num = 0

----------------------------------------------------------------------------
(* C3 *)

\* C3: from a well-formed start, after any MiniGridStep calls the agent is
\* inside the grid, its direction is in 0..3 and its cell can be overlapped.
C3_AgentWellPlaced ==
    /\ agent_pos[1] >= 0 /\ agent_pos[1] < GridWidth
    /\ agent_pos[2] >= 0 /\ agent_pos[2] < GridHeight
    /\ agent_dir \in {0, 1, 2, 3}
    /\ CanOverlap(grid[agent_pos])

\* standing on an open door, the agent has dropped what it carried
C3_Witness ==
    /\ Stepped /\ act = "drop"
    /\ carrying # pre.carrying
    /\ grid[agent_pos].type = "door"

----------------------------------------------------------------------------
(* C4 *)

\* C4: Forward leaves the agent in place and returns 0 when the forward cell
\* cannot be overlapped, moves the agent onto the forward cell when it can;
\* no other action changes the agent position.
C4_ForwardMoves ==
    Stepped =>
        /\ (act = "forward" /\ ~CanOverlap(pre.grid[Ahead])) =>
              (agent_pos = pre.agent_pos /\ reward.num = 0)
        /\ (act = "forward" /\ CanOverlap(pre.grid[Ahead])) =>
              agent_pos = Ahead
        /\ act # "forward" => agent_pos = pre.agent_pos

\* a Forward has moved the agent to the north (direction 3)
C4_Witness ==
    /\ Stepped /\ act = "forward"
    /\ pre.agent_dir = 3
    /\ agent_pos = <<pre.agent_pos[1], pre.agent_pos[2] - 1>>

----------------------------------------------------------------------------
(* C5 *)

GoalStep ==
    /\ Stepped /\ act = "forward"
    /\ pre.grid[Ahead].type = "goal"
    /\ step_count <= max_steps

Decreasing(M) ==
    \A s1, s2 \in 1 .. M : s1 < s2 => Less(GoalReward(s2, M), GoalReward(s1, M))

\* C5 as stated: the Goal reward at step s <= M is 1 - 0.9*(s/M), strictly
\* decreasing in s and strictly greater than 0.1, at most 1.
C5_Original ==
    GoalStep =>
        /\ done
        /\ Same(reward, Formula(step_count, max_steps))
        /\ Decreasing(max_steps)
        /\ Less(OneTenth, reward)
        /\ ~Less(One, reward)

\* C5 amended: the Goal reward at step s <= M is 1 - 0.9*(s/M), strictly
\* decreasing in s, at least 0.1 and at most 1; it is 0.1 exactly when
\* s = M.
C5_GoalReward ==
    GoalStep =>
        /\ done
        /\ Same(reward, Formula(step_count, max_steps))
        /\ Decreasing(max_steps)
        /\ ~Less(reward, OneTenth)
        /\ ~Less(One, reward)
        /\ Same(reward, OneTenth) <=> step_count = max_steps

\* the Goal is reached at the last step of the episode
C5_Witness == GoalStep /\ step_count = max_steps /\ Same(reward, OneTenth)

----------------------------------------------------------------------------
(* C6 *)

LockedClosed(o) == o.type = "door" /\ o.door_locked /\ ~o.door_open

RightKey(held, door) == held.type = "key" /\ held.color = door.color

\* C6: a locked, closed door stays as it is unless a Toggle is performed
\* facing it with a Key of its color in hand; no action other than Toggle
\* changes a door.
C6_LockedDoorStays ==
    Stepped =>
        \A p \in Cells :
            /\ (/\ LockedClosed(pre.grid[p])
                /\ ~(/\ act = "toggle" /\ p = Ahead
                     /\ RightKey(pre.carrying, pre.grid[p])))
                  => grid[p] = pre.grid[p]
            /\ (pre.grid[p].type = "door" /\ act # "toggle")
                  => grid[p] = pre.grid[p]

\* a Toggle on a locked door with a key of another color in hand
C6_Witness ==
    /\ Stepped /\ act = "toggle"
    /\ LockedClosed(pre.grid[Ahead])
    /\ pre.carrying.type = "key"
    /\ pre.carrying.color # pre.grid[Ahead].color
    /\ LockedClosed(grid[Ahead])

----------------------------------------------------------------------------
(* C7 *)

\* the last call was a Toggle on a locked door with the right key
Unlocking ==
    /\ Stepped /\ act = "toggle"
    /\ LockedClosed(pre.grid[Ahead])
    /\ RightKey(pre.carrying, pre.grid[Ahead])

\* C7: Toggle facing a locked door with a Key of its color opens the door
\* and clears its lock, and the next Toggle on it closes it again.
C7_UnlockThenClose ==
    [][Unlocking =>
        /\ grid[Ahead].type = "door"
        /\ grid[Ahead].door_open
        /\ ~grid[Ahead].door_locked
        /\ (act' = "toggle" /\ ~aborted') =>
              /\ grid'[Ahead].type = "door"
              /\ ~grid'[Ahead].door_open
              /\ ~grid'[Ahead].door_locked]_vars

\* the door unlocked with the red key has been closed by a second Toggle
C7_Witness ==
    /\ Stepped /\ act = "toggle"
    /\ pre.grid[Ahead].type = "door"
    /\ pre.grid[Ahead].door_open /\ ~pre.grid[Ahead].door_locked
    /\ RightKey(pre.carrying, pre.grid[Ahead])
    /\ ~grid[Ahead].door_open
    /\ step_count >= 3

----------------------------------------------------------------------------
(* C8 *)

\* the last call was a Pickup with empty hands facing a pickable object
PickedUp ==
    /\ Stepped /\ act = "pickup"
    /\ pre.carrying.type = "empty"
    /\ CanPickup(pre.grid[Ahead])

\* C8: Pickup with empty hands followed at once by Drop restores the
\* forward cell and every other cell, leaves the hands empty and the agent
\* where it was.
C8_PickupDrop ==
    [][(PickedUp /\ act' = "drop" /\ ~aborted') =>
        /\ grid' = pre.grid
        /\ carrying' = EmptyObj
        /\ agent_pos' = pre.agent_pos
        /\ agent_dir' = pre.agent_dir]_vars

\* a box with nested contents has been picked up and dropped again
C8_Witness ==
    /\ Stepped /\ act = "drop"
    /\ pre.carrying.type = "box" /\ pre.carrying.contains # <<>>
    /\ pre.grid[Ahead].type = "empty"
    /\ grid[Ahead] = pre.carrying
    /\ carrying = EmptyObj
    /\ step_count = 2

----------------------------------------------------------------------------
(* C9 *)

\* C9: done_ is true after the k-th MiniGridStep for every k >= max_steps,
\* and a Forward onto a Goal at step max_steps still returns
\* 1 - 0.9*(max_steps/max_steps).
C9_EpisodeEnds ==
    /\ (~aborted /\ step_count >= max_steps) => done
    /\ (Stepped /\ act = "forward" /\ pre.grid[Ahead].type = "goal"
            /\ step_count = max_steps)
          => Same(reward, Formula(max_steps, max_steps))

\* the step that reaches max_steps is a Forward onto a Goal, no earlier
\* step having ended the episode
C9_Witness ==
    /\ Stepped /\ act = "forward"
    /\ pre.grid[Ahead].type = "goal"
    /\ step_count = max_steps
    /\ ~pre.done /\ done
    /\ reward.num > 0

----------------------------------------------------------------------------
(* C10 *)

\* C10: when MiniGridReset returns, step_count is 0, done is false, nothing
\* is carried, and the agent is inside the grid with a direction in 0..3 on
\* a cell that can be overlapped: every other GenGrid outcome is rejected.
C10_ResetRejects ==
    (act = "reset" /\ ~aborted) =>
        /\ step_count = 0 /\ ~done /\ carrying = EmptyObj
        /\ InBounds(agent_pos)
        /\ agent_dir \in 0 .. 3
        /\ CanOverlap(grid[agent_pos])

----------------------------------------------------------------------------
(* C11 *)

\* C11: MiniGridStep returns a non-zero reward only for a Forward with a
\* Goal in the forward cell; a Forward onto Lava sets done and returns 0.
C11_RewardOnlyAtGoal ==
    Stepped =>
        /\ reward.num # 0 =>
              (act = "forward" /\ pre.grid[Ahead].type = "goal")
        /\ (act = "forward" /\ pre.grid[Ahead].type = "lava") =>
              (done /\ reward.num = 0)

\* a Forward has taken the agent onto Lava
C11_Witness ==
    /\ Stepped /\ act = "forward"
    /\ pre.grid[Ahead].type = "lava"
    /\ agent_pos = Ahead
    /\ ~pre.done /\ done
    /\ reward.num = 0

----------------------------------------------------------------------------
(* C18 *)

Turned(d, by) == (d + by) % 4

\* C18: Left, Right and Done leave the grid, the agent position and the
\* carried object alone and return 0; Left turns the direction by -1 mod 4,
\* Right by +1 mod 4 (Left then Right and four equal turns restore it), Done
\* keeps it and does not set done; step_count grows by 1 and done is only
\* forced at max_steps.
C18_TurnFrame ==
    (Stepped /\ act \in {"left", "right", "done"}) =>
        /\ grid = pre.grid
        /\ agent_pos = pre.agent_pos
        /\ carrying = pre.carrying
        /\ reward.num = 0
        /\ step_count = pre.step_count + 1
        /\ done = (pre.done \/ step_count >= max_steps)
        /\ act = "left" => agent_dir = Turned(pre.agent_dir, 3)
        /\ act = "right" => agent_dir = Turned(pre.agent_dir, 1)
        /\ act = "done" => agent_dir = pre.agent_dir
        /\ TurnRight(TurnLeft(pre.agent_dir)) = pre.agent_dir
        /\ TurnLeft(TurnLeft(TurnLeft(TurnLeft(pre.agent_dir))))
              = pre.agent_dir
        /\ TurnRight(TurnRight(TurnRight(TurnRight(pre.agent_dir))))
              = pre.agent_dir

\* a Left taken facing east (0) has turned the agent to the north (3)
C18_Witness ==
    /\ Stepped /\ act = "left"
    /\ pre.agent_dir = 0 /\ agent_dir = 3
    /\ ~done

----------------------------------------------------------------------------
(* C19 *)

\* what a box leaves in its cell when it is toggled
Revealed(b) ==
    IF b.contains # <<>>
    THEN [type |-> b.contains[1].type, color |-> b.contains[1].color,
          door_open |-> b.contains[1].door_open,
          door_locked |-> b.contains[1].door_locked,
          contains |-> SubSeq(b.contains, 2, Len(b.contains))]
    ELSE Obj("empty", "none")

\* an object after n Toggles of its cell (doors aside)
RECURSIVE Toggled(_, _)
Toggled(o, n) ==
    IF n = 0 THEN o
    ELSE Toggled(IF o.type = "box" THEN ToggleBox(o) ELSE o, n - 1)

\* boxes in boxes, k deep
BoxesOnly(b) ==
    b.type = "box" /\ \A i \in 1 .. Len(b.contains) : b.contains[i].type = "box"

\* C19: Toggle facing a Box puts the box's contained object, with that
\* object's own contents, in the forward cell, or Empty when the box has no
\* contents (boxes nested k deep take exactly k+1 Toggles to leave Empty);
\* nothing else changes, and Toggle facing neither Door nor Box changes
\* nothing.
C19_ToggleBox ==
    (Stepped /\ act = "toggle") =>
        /\ agent_pos = pre.agent_pos
        /\ agent_dir = pre.agent_dir
        /\ carrying = pre.carrying
        /\ \A p \in Cells : p # Ahead => grid[p] = pre.grid[p]
        /\ pre.grid[Ahead].type = "box" =>
              grid[Ahead] = Revealed(pre.grid[Ahead])
        /\ pre.grid[Ahead].type \notin {"door", "box"} => grid = pre.grid
        /\ BoxesOnly(pre.grid[Ahead]) =>
              LET k == Len(pre.grid[Ahead].contains)
              IN  /\ Toggled(pre.grid[Ahead], k + 1) = Obj("empty", "none")
                  /\ \A n \in 0 .. k :
                        Toggled(pre.grid[Ahead], n).type = "box"

\* the second Toggle on a box holding an empty box has left the cell Empty
C19_Witness ==
    /\ Stepped /\ act = "toggle"
    /\ step_count = 2
    /\ pre.grid[Ahead] = Obj("box", "red")
    /\ grid[Ahead] = Obj("empty", "none")

----------------------------------------------------------------------------
(* C12 *)

\* the viewport in which every cell holds the world cell it was read from
CoordGrid(top, n) == [rc \in ViewCells(n) |-> WorldCell(top, rc)]

\* the world cell shown by each cell of the rotated viewport
ViewCoords(s, n) ==
    RotateTimes(CoordGrid(TopLeft(s.agent_pos, s.agent_dir, n), n), n,
                s.agent_dir + 1)

\* the world cell one step from p in direction d: east, south, west, north
WorldAhead(p, d) ==
    CASE d = 0 -> <<p[1] + 1, p[2]>>
      [] d = 1 -> <<p[1], p[2] + 1>>
      [] d = 2 -> <<p[1] - 1, p[2]>>
      [] d = 3 -> <<p[1], p[2] - 1>>

\* C12: for every direction, agent position and odd view size, the extracted
\* and rotated viewport shows the agent's world cell at row n-1, column n/2,
\* the world cell ahead of the agent at row n-2, column n/2, the type of the
\* grid object at every cell inside the grid and a wall at every cell outside
C12_ViewFrame ==
    obs.rendered =>
        LET n == agent_view_size
            w == ViewCoords(EnvState, n)
            v == ViewGrid(EnvState, n)
        IN  /\ w[<<n - 1, n \div 2>>] = agent_pos
            /\ w[<<n - 2, n \div 2>>] = WorldAhead(agent_pos, agent_dir)
            /\ \A rc \in ViewCells(n) :
                  v[rc].type = IF InBounds(w[rc]) THEN grid[w[rc]].type
                               ELSE "wall"

\* a viewport of size 5 rendered facing east after a step, part of it outside
\* the grid and a non-wall object ahead of the agent
C12_Witness ==
    /\ obs.rendered
    /\ Stepped
    /\ agent_view_size = 5
    /\ agent_dir = 0
    /\ \E rc \in ViewCells(5) : ~InBounds(ViewCoords(EnvState, 5)[rc])
    /\ ViewGrid(EnvState, 5)[<<3, 2>>].type \notin {"wall", "empty"}

----------------------------------------------------------------------------
(* C13 *)

\* C13: after any steps, in both visibility modes and for every direction,
\* GenImage writes at output index [n/2][n-1] the type, color and state codes
\* of the carried object, or those of Empty when nothing is carried, whatever
\* the grid holds at the agent's position
C13_CarriedShown ==
    obs.rendered =>
        obs.image[<<agent_view_size \div 2, agent_view_size - 1>>] =
            IF carrying.type = "empty"
            THEN <<TypeCode("empty"), ColorCode(EmptyObj.color), 0>>
            ELSE <<TypeCode(carrying.type), ColorCode(carrying.color),
                   StateCode(carrying)>>

\* rendered while carrying a colored object and standing on a cell that is not
\* empty
C13_Witness ==
    /\ obs.rendered
    /\ Stepped
    /\ carrying.type # "empty"
    /\ carrying.color \in {"red", "green"}
    /\ grid[agent_pos].type # "empty"

----------------------------------------------------------------------------
(* C14 *)

\* C14: every viewport cell that is marked visible, lies inside the grid and
\* is not the agent's cell is written with the type, color and state codes of
\* the grid object at its world cell; cells not marked visible keep what the
\* buffer held before the call
C14_ChannelsMatchGrid ==
    obs.rendered =>
        LET n == agent_view_size
            w == ViewCoords(EnvState, n)
        IN  \A rc \in ViewCells(n) :
               /\ (rc \in obs.vis_mask /\ InBounds(w[rc]) /\ rc # AgentCell(n))
                     => obs.image[<<rc[2], rc[1]>>] = Codes(grid[w[rc]])
               /\ rc \notin obs.vis_mask
                     => obs.image[<<rc[2], rc[1]>>] = PriorCell

----------------------------------------------------------------------------
(* C15 *)

\* the sub-grid of the current state before it is rotated
Extracted == SubGrid(grid, TopLeft(agent_pos, agent_dir, agent_view_size),
                     agent_view_size)

\* C15: four applications of the rotation step give back the grid they
\* started from, for every view size and every content: for the extracted
\* sub-grid, for the grid whose cells are pairwise different (every content
\* is a relabelling of it), and in the rendering of an agent facing north,
\* where the rotation loop runs four times
C15_RotateFourTimes ==
    obs.rendered =>
        LET n == agent_view_size
            c == CoordGrid(<<0, 0>>, n)
        IN  /\ RotateTimes(Extracted, n, 4) = Extracted
            /\ RotateTimes(c, n, 4) = c
            /\ agent_dir = 3 => ViewGrid(EnvState, n) = Extracted

\* rendered facing north with a view of size 5 that a single rotation changes
C15_Witness ==
    /\ obs.rendered
    /\ agent_dir = 3
    /\ agent_view_size = 5
    /\ Rotate(Extracted, 5) # Extracted
    /\ ViewGrid(EnvState, 5) = Extracted

----------------------------------------------------------------------------
(* C16 *)

\* the cell c lies in the rectangle r, where an end of -1 is the last column
\* or row
Inside(c, r) ==
    /\ r[1] <= c[1]
    /\ c[1] <= (IF r[3] = -1 THEN GridWidth - 1 ELSE r[3])
    /\ r[2] <= c[2]
    /\ c[2] <= (IF r[4] = -1 THEN GridHeight - 1 ELSE r[4])

\* C16: the cell PlaceObject returns lies in the rectangle, holds an Empty
\* object and is not the agent's position of that moment; PlaceAgent leaves
\* the agent on such a cell, and while it samples the agent's position is
\* invalid, so that the agent's previous cell can be chosen
C16_PlacedOnFreeCell ==
    /\ place.pc = "returned" =>
          /\ Inside(place.result, place.args)
          /\ grid[place.result].type = "empty"
          /\ place.caller = "object" => place.result # agent_pos
          /\ place.caller = "agent" => agent_pos = place.result
    /\ (place.pc = "loop" /\ place.caller = "agent") =>
          /\ agent_pos = <<-1, -1>>
          /\ \A c \in Cells :
                (Inside(c, place.args) /\ grid[c].type = "empty")
                   => ENABLED <<Draw(c)>>_vars

\* PlaceAgent has returned the cell the agent stood on before, out of a
\* rectangle with more than one cell
C16_Witness ==
    /\ place.pc = "returned"
    /\ place.caller = "agent"
    /\ place.args[3] = -1
    /\ agent_pos = pre.agent_pos
    /\ InBounds(agent_pos)

----------------------------------------------------------------------------
(* C17 *)

\* the rectangle holds an Empty cell that is not the agent's position
HasFree ==
    \E c \in Cells :
        /\ Inside(c, place.args)
        /\ grid[c].type = "empty"
        /\ c # agent_pos

\* C17: under fair draws PlaceObject eventually returns when its rectangle
\* holds an Empty cell that is not the agent's position, and when it holds
\* none the loop goes on forever: no return, no error
C17_PlaceTerminates ==
    /\ (place.pc = "loop" /\ HasFree) ~> place.pc = "returned"
    /\ []((place.pc = "loop" /\ ~HasFree)
             => [](place.pc = "loop" /\ ~aborted))

\* PlaceObject has returned from a rectangle in which the agent stands and
\* another cell is occupied
C17_Witness ==
    /\ place.pc = "returned"
    /\ place.caller = "object"
    /\ Inside(agent_pos, place.args)
    /\ \E c \in Cells : Inside(c, place.args) /\ grid[c].type # "empty"

----------------------------------------------------------------------------
(* C20 *)

\* the cells a visible see-through cell m makes visible: left and right in
\* its row, and above-left, above and above-right in the row above
Shown(m, n) ==
    {<<m[1], m[2] - 1>>, <<m[1], m[2] + 1>>, <<m[1] - 1, m[2] - 1>>,
     <<m[1] - 1, m[2]>>, <<m[1] - 1, m[2] + 1>>} \cap ViewCells(n)

\* the least set of cells that includes S and is closed under Shown
RECURSIVE Closure(_, _, _)
Closure(v, n, S) ==
    LET T == S \cup UNION {Shown(m, n) : m \in {c \in S : CanSeeBehind(v[c])}}
    IN  IF T = S THEN S ELSE Closure(v, n, T)

\* C20: with see_through_walls off the mask left by the row loop, with one
\* sweep to the right and one to the left per row, is the least set of cells
\* that holds the agent's cell and is closed under Shown, for every
\* assignment of opaque and see-through objects; with see_through_walls on
\* it is every cell
C20_MaskIsClosure ==
    (obs.rendered /\ viewgrid.given) =>
        obs.vis_mask =
            IF see_through_walls THEN ViewCells(agent_view_size)
            ELSE Closure(viewgrid.cells, agent_view_size,
                         {<<agent_view_size - 1, agent_view_size \div 2>>})

\* a mask of a viewport of size 5 that holds a cell the sweep to the right
\* alone does not reach, and not every cell
C20_Witness ==
    /\ obs.rendered
    /\ viewgrid.given
    /\ ~see_through_walls
    /\ agent_view_size = 5
    /\ obs.vis_mask # ViewCells(5)
    /\ \E rc \in obs.vis_mask :
          ~SweepRowsRightOnly(SeedMask(5), viewgrid.cells, 4, 5)[rc]

====
